---- MODULE Spec2Model ----
(***************************************************************************)
(* A model of fstats.py (src/src/python/fstats.py): the FileReader class   *)
(* hierarchy (Histogram, Entropy, LengthByRead, LengthByStat, WordCount,   *)
(* LineCount) and the driver main().                                       *)
(*                                                                         *)
(* A byte is its value 0..255 (a Python 2 one-character str); a file is    *)
(* the sequence of its bytes.  The program is Python 2 on a POSIX system:  *)
(* open(name, 'r') reads the bytes as they are and readlines() cuts        *)
(* lines after '\n' only.                                                  *)
(***************************************************************************)
EXTENDS Integers, Sequences, FiniteSets, TLC

VARIABLES
  opts,         \* in_opts: the option dictionary handed to main()
  fs,           \* the filesystem: path -> the file's bytes, or NoFile
  stdin,        \* the bytes waiting on the process's standard input
  ip,           \* main(): index in Order of the statistic being handled
  pc,           \* main()/process(): the statement about to run
  locals,       \* main(): the local variables lc, wc, l, h, e bound so far
  buffer,       \* process(): the bytes of the current chunk not yet fed
  lines,        \* process(): the lines of readlines() not yet fed
  out,          \* what main() has printed: <<statistic, value>> records
  exc,          \* the exception propagating out of main(), or NoExc
  del_ignored,  \* an exception was raised (and ignored) inside a __del__
  fed,          \* history: the bytes handed to on_byte of the current object
  log           \* history: the operations main() has completed

vars == <<opts, fs, stdin, ip, pc, locals, buffer, lines, out, exc,
          del_ignored, fed, log>>

---------------------------------------------------------------------------
(* Bounds of the model. *)

\* The longest file (and standard input) considered, in bytes.
MaxLen == 3

\* FileReader.__buffer_length (4096 in the source, line 50), scaled down so
\* that a file of MaxLen bytes spans several chunks of the read loop.
buffer_length == 2

\* The byte values files are made of: '\n', ' ', 'a'.
Alphabet == {10, 32, 97}

Byte == 0..255

RECURSIVE SeqsUpTo(_)
SeqsUpTo(n) ==
  IF n = 0 THEN {<<>>}
  ELSE LET S == SeqsUpTo(n - 1)
       IN  S \cup {Append(s, b) : s \in {t \in S : Len(t) = n - 1}, b \in Alphabet}

Contents == SeqsUpTo(MaxLen)

\* A path that names no file.
NoFile == <<-1>>

\* What may wait on standard input: nothing, or one line.
StdinInputs == {<<>>, <<97, 10>>}

\* What the working directory may hold under the name of the standard-input
\* marker: no file, or some file.
MarkerFiles == {NoFile, <<97>>}

\* The default of --load-data, and an ordinary path.
StdinMarker == "<stdin>"
Paths == {StdinMarker, "data"}

---------------------------------------------------------------------------
(* Python built-ins the program uses. *)

ord(c) == c

Min(a, b) == IF a < b THEN a ELSE b

\* file.read(n): up to n bytes from the position on.
file_read(content, pos, n) == SubSeq(content, pos + 1, Min(pos + n, Len(content)))

\* file.readlines(): the rest of the file cut after each '\n'; a last line
\* without terminator is a line too.
RECURSIVE readlines(_, _)
readlines(s, cur) ==
  IF s = <<>> THEN (IF cur = <<>> THEN <<>> ELSE <<cur>>)
  ELSE IF Head(s) = 10 THEN <<Append(cur, 10)>> \o readlines(Tail(s), <<>>)
  ELSE readlines(Tail(s), Append(cur, Head(s)))

\* The characters str.split() without argument splits on.
Whitespace == {9, 10, 11, 12, 13, 32}

\* len(s.split()): a left-to-right scan counting the tokens it starts.
RECURSIVE split_len(_, _)
split_len(s, in_token) ==
  IF s = <<>> THEN 0
  ELSE IF Head(s) \in Whitespace THEN split_len(Tail(s), FALSE)
  ELSE (IF in_token THEN 0 ELSE 1) + split_len(Tail(s), TRUE)

\* len(s.split(' ')): splitting on the single character ' ' keeps empty
\* tokens and treats no other character as a separator.
split_space_len(s) == 1 + Cardinality({i \in 1..Len(s) : s[i] = 32})

RECURSIVE Pow(_, _)
Pow(a, b) == IF b = 0 THEN 1 ELSE a * Pow(a, b - 1)

---------------------------------------------------------------------------
(* class FileReader *)

None == [null |-> TRUE, closed |-> FALSE, pos |-> 0]

FileReader_init(in_rmode) == [fh |-> None, rmode |-> in_rmode, filename |-> ""]

\* open(in_filename, 'r'): the path is looked up in the filesystem, whatever
\* its spelling; a path naming no file raises IOError.
FileReader_open(self, in_filename, files) ==
  IF files[in_filename] = NoFile
  THEN [err |-> "IOError", obj |-> [self EXCEPT !.filename = in_filename]]
  ELSE [err |-> "",
        obj |-> [self EXCEPT !.filename = in_filename,
                             !.fh = [null |-> FALSE, closed |-> FALSE, pos |-> 0]]]

\* close() without its guard: self.fh.close() on None is an AttributeError.
FileReader_close_unguarded(self) ==
  IF self.fh = None
  THEN [err |-> "AttributeError", obj |-> self]
  ELSE [err |-> "", obj |-> [self EXCEPT !.fh.closed = TRUE]]

FileReader_close(self) ==
  IF (self.fh # None) /\ (self.fh.closed = FALSE)
  THEN [err |-> "", obj |-> [self EXCEPT !.fh.closed = TRUE]]
  ELSE [err |-> "", obj |-> self]

\* A loop that ends as soon as a chunk is short, before feeding it.
LoopEndsOnShortChunk(chunk) == Len(chunk) < buffer_length

\* The while-loop of process() in byte mode ends on an empty chunk.
LoopEnds(chunk) == Len(chunk) = 0

---------------------------------------------------------------------------
(* class Histogram *)

Histogram_init == FileReader_init("byte") @@ [cls |-> "Histogram", bcnt_arr |-> [i \in Byte |-> 0]]

\* An increment of the neighbouring cell.
Histogram_on_byte_off_by_one(self, in_byte) ==
  [self EXCEPT !.bcnt_arr[(ord(in_byte) + 1) % 256] = @ + 1]

Histogram_on_byte(self, in_byte) ==
  [self EXCEPT !.bcnt_arr[ord(in_byte)] = @ + 1]

Histogram_result(self) == self.bcnt_arr

---------------------------------------------------------------------------
(* class Entropy *)

Entropy_init == [Histogram_init EXCEPT !.cls = "Entropy"] @@ [bcnt |-> 0]

\* on_byte without the increment of the running total.
Entropy_on_byte_no_total(self, in_byte) == Histogram_on_byte(self, in_byte)

Entropy_on_byte(self, in_byte) ==
  [Histogram_on_byte(self, in_byte) EXCEPT !.bcnt = @ + 1]

(* ent_bits is a real number.  It is kept exactly, as the pair (num, den)    *)
(* with 2^(bcnt * ent_bits) = num / den: the term -p*log2(p) of a cell with *)
(* count c and p = c/bcnt multiplies num by bcnt^c and den by c^c.  The     *)
(* value is 0 exactly when num = den.  A cell with p = 1 contributes        *)
(* -1.0 * log(1.0, 2) = 0.0 in floating point too.                          *)

\* The first cell from i on that the loop does not skip (256: none).
NextCell(self, i) ==
  LET S == {j \in i..255 : self.bcnt_arr[j] # 0}
  IN  IF S = {} THEN 256 ELSE CHOOSE j \in S : \A k \in S : j <= k

\* for i in range(256), from cell i on: empty cells are skipped, p of a
\* non-empty cell is a division by bcnt.
RECURSIVE EntropyLoop(_, _, _, _)
EntropyLoop(self, i, num, den) ==
  LET j == NextCell(self, i)
  IN  IF j = 256 THEN [err |-> "", num |-> num, den |-> den]
      ELSE IF self.bcnt = 0 THEN [err |-> "ZeroDivisionError", num |-> num, den |-> den]
      ELSE EntropyLoop(self, j + 1, num * Pow(self.bcnt, self.bcnt_arr[j]),
                                    den * Pow(self.bcnt_arr[j], self.bcnt_arr[j]))

\* The loop without its skip of empty cells: p = 1.0 * 0 / bcnt is computed
\* for them, and math.log(0.0, 2) is a ValueError.
RECURSIVE EntropyLoopNoSkip(_, _, _, _)
EntropyLoopNoSkip(self, i, num, den) ==
  IF i = 256 THEN [err |-> "", num |-> num, den |-> den]
  ELSE IF self.bcnt = 0 THEN [err |-> "ZeroDivisionError", num |-> num, den |-> den]
  ELSE IF self.bcnt_arr[i] = 0 THEN [err |-> "ValueError", num |-> num, den |-> den]
  ELSE EntropyLoopNoSkip(self, i + 1, num * Pow(self.bcnt, self.bcnt_arr[i]),
                                      den * Pow(self.bcnt_arr[i], self.bcnt_arr[i]))

Entropy_result_no_skip(self, in_percent_ena) ==
  LET r == EntropyLoopNoSkip(self, 0, 1, 1)
  IN  [err |-> r.err, num |-> r.num, den |-> r.den, total |-> self.bcnt,
       mul |-> IF in_percent_ena THEN 100 ELSE 1,
       div |-> IF in_percent_ena THEN 8 ELSE 1]

\* result(): ent_bits, or ent_percent = 100 * ent_bits / 8.0.
Entropy_result(self, in_percent_ena) ==
  LET r == EntropyLoop(self, 0, 1, 1)
  IN  [err |-> r.err, num |-> r.num, den |-> r.den, total |-> self.bcnt,
       mul |-> IF in_percent_ena THEN 100 ELSE 1,
       div |-> IF in_percent_ena THEN 8 ELSE 1]

\* The real number a result stands for is 0.
IsZeroReal(r) == r.mul = 0 \/ r.num = r.den

---------------------------------------------------------------------------
(* classes LengthByRead, LengthByStat, WordCount, LineCount *)

LengthByRead_init == FileReader_init("byte") @@ [cls |-> "LengthByRead", byte_cnt |-> 0]

LengthByRead_on_byte(self, in_byte) == [self EXCEPT !.byte_cnt = @ + 1]

LengthByRead_result(self) == self.byte_cnt

LengthByStat_init == FileReader_init("none") @@ [cls |-> "LengthByStat", byte_cnt |-> 0]

\* os.stat(self.filename).st_size
st_size(files, filename) == Len(files[filename])

LengthByStat_on_file(self, files) == [self EXCEPT !.byte_cnt = st_size(files, self.filename)]

LengthByStat_result(self) == self.byte_cnt

WordCount_init == FileReader_init("line") @@ [cls |-> "WordCount", word_cnt |-> 0]

\* on_line with in_line.split(' ') in place of in_line.split().
WordCount_on_line_split_space(self, in_line) ==
  [self EXCEPT !.word_cnt = @ + split_space_len(in_line)]

WordCount_on_line(self, in_line) == [self EXCEPT !.word_cnt = @ + split_len(in_line, FALSE)]

WordCount_result(self) == self.word_cnt

LineCount_init == FileReader_init("line") @@ [cls |-> "LineCount", line_cnt |-> 0]

\* on_line that does not count a line without terminator.
LineCount_on_line_terminated_only(self, in_line) ==
  [self EXCEPT !.line_cnt = @ + (IF in_line[Len(in_line)] = 10 THEN 1 ELSE 0)]

LineCount_on_line(self, in_line) == [self EXCEPT !.line_cnt = @ + 1]

LineCount_result(self) == self.line_cnt

\* Method dispatch on the class of the object.
on_byte(self, in_byte) ==
  CASE self.cls = "Histogram" -> Histogram_on_byte(self, in_byte)
    [] self.cls = "Entropy" -> Entropy_on_byte(self, in_byte)
    [] self.cls = "LengthByRead" -> LengthByRead_on_byte(self, in_byte)
    [] OTHER -> self

on_line(self, in_line) ==
  CASE self.cls = "WordCount" -> WordCount_on_line(self, in_line)
    [] self.cls = "LineCount" -> LineCount_on_line(self, in_line)
    [] OTHER -> self

on_file(self, files) ==
  CASE self.cls = "LengthByStat" -> LengthByStat_on_file(self, files)
    [] OTHER -> self

---------------------------------------------------------------------------
(* main() *)

\* main() with the length block moved in front of the others.
OrderLengthFirst == <<"length", "line_count", "word_count", "histogram", "entropy">>

\* The order of the if-statements of main(), by option name.
Order == <<"line_count", "word_count", "length", "histogram", "entropy">>

Flags == {Order[i] : i \in 1..Len(Order)}

\* The local variable of main() each statistic is bound to.
VarOf(flag) ==
  CASE flag = "line_count" -> "lc"
    [] flag = "word_count" -> "wc"
    [] flag = "length" -> "l"
    [] flag = "histogram" -> "h"
    [] flag = "entropy" -> "e"

NoExc == [type |-> "", during |-> "", stat |-> ""]

Cur == VarOf(Order[ip])

\* The constructor call(s) of each if-block.
NewObject(flag, in_opts) ==
  CASE flag = "line_count" -> LineCount_init
    [] flag = "word_count" -> WordCount_init
    [] flag = "length" -> IF in_opts.mode_length = "stat" THEN LengthByStat_init
                                                         ELSE LengthByRead_init
    [] flag = "histogram" -> Histogram_init
    [] flag = "entropy" -> Entropy_init

\* The object a rebinding of l leaves without reference (its __del__ runs).
Rebinds(flag, in_opts) == flag = "length" /\ in_opts.mode_length = "stat"

\* The value(s) the print statement of each if-block evaluates.
Printed(self) ==
  CASE self.cls = "LineCount" -> [err |-> "", value |-> LineCount_result(self)]
    [] self.cls = "WordCount" -> [err |-> "", value |-> WordCount_result(self)]
    [] self.cls = "LengthByRead" -> [err |-> "", value |-> LengthByRead_result(self)]
    [] self.cls = "LengthByStat" -> [err |-> "", value |-> LengthByStat_result(self)]
    [] self.cls = "Histogram" -> [err |-> "", value |-> Histogram_result(self)]
    [] self.cls = "Entropy" ->
         LET bits == Entropy_result(self, FALSE)
             percent == Entropy_result(self, TRUE)
         IN  [err |-> IF bits.err # "" THEN bits.err ELSE percent.err,
              value |-> <<bits, percent>>]

Bind(v, obj) == [x \in DOMAIN locals \cup {v} |-> IF x = v THEN obj ELSE locals[x]]

Raise(type, during) ==
  /\ exc' = [type |-> type, during |-> during, stat |-> Order[ip]]
  /\ pc' = "raise"

\* The state when main() is entered.  Its first statement, print in_opts,
\* writes the options and changes nothing the statistics read.
Init ==
  /\ opts \in [line_count : BOOLEAN, word_count : BOOLEAN, length : BOOLEAN,
               histogram : BOOLEAN, entropy : BOOLEAN,
               mode_length : {"read", "stat"}, load_data : Paths]
  /\ ~opts.length => opts.mode_length = "stat"
  /\ fs \in [Paths -> Contents \cup {NoFile}]
  /\ \A p \in Paths : p # opts.load_data => fs[p] = NoFile
  /\ fs[StdinMarker] \in MarkerFiles
  /\ stdin \in StdinInputs
  /\ opts.load_data # StdinMarker => stdin = <<>>
  /\ ip = 1
  /\ pc = "if"
  /\ locals = <<>>
  /\ buffer = <<>>
  /\ lines = <<>>
  /\ out = <<>>
  /\ exc = NoExc
  /\ del_ignored = FALSE
  /\ fed = <<>>
  /\ log = <<>>

\* if (in_opts[...]) is false: the block is skipped.
Skip ==
  /\ pc = "if" /\ ip <= Len(Order) /\ ~opts[Order[ip]]
  /\ ip' = ip + 1
  /\ UNCHANGED <<opts, fs, stdin, pc, locals, buffer, lines, out, exc,
                 del_ignored, fed, log>>

\* if (in_opts[...]) is true: the accumulator is instantiated.
New ==
  /\ pc = "if" /\ ip <= Len(Order) /\ opts[Order[ip]]
  /\ locals' = Bind(Cur, NewObject(Order[ip], opts))
  /\ del_ignored' = (del_ignored \/ (Rebinds(Order[ip], opts)
                                      /\ FileReader_close(LengthByRead_init).err # ""))
  /\ fed' = <<>>
  /\ log' = Append(log, <<Order[ip], "new">>)
  /\ pc' = "open"
  /\ UNCHANGED <<opts, fs, stdin, ip, buffer, lines, out, exc>>

\* x.open(in_opts['load_data'])
Open ==
  /\ pc = "open"
  /\ LET r == FileReader_open(locals[Cur], opts.load_data, fs)
     IN  /\ locals' = Bind(Cur, r.obj)
         /\ IF r.err # ""
            THEN Raise(r.err, "open") /\ log' = log
            ELSE /\ pc' = "process"
                 /\ log' = Append(log, <<Order[ip], "open">>)
                 /\ exc' = exc
  /\ UNCHANGED <<opts, fs, stdin, ip, buffer, lines, out, del_ignored, fed>>

PassDone ==
  /\ pc' = "close"
  /\ log' = Append(log, <<Order[ip], "process">>)

\* process(), byte mode: buffer = self.fh.read(self.__buffer_length)
ReadChunk ==
  /\ pc = "process" /\ locals[Cur].rmode = "byte" /\ buffer = <<>>
  /\ LET self == locals[Cur]
         chunk == file_read(fs[self.filename], self.fh.pos, buffer_length)
     IN  /\ locals' = Bind(Cur, [self EXCEPT !.fh.pos = @ + Len(chunk)])
         /\ IF LoopEnds(chunk)
            THEN PassDone /\ buffer' = <<>>
            ELSE buffer' = chunk /\ pc' = pc /\ log' = log
  /\ UNCHANGED <<opts, fs, stdin, ip, lines, out, exc, del_ignored, fed>>

\* process(), byte mode: self.on_byte(i_byte) for the next byte of buffer
OnByte ==
  /\ pc = "process" /\ locals[Cur].rmode = "byte" /\ buffer # <<>>
  /\ locals' = Bind(Cur, on_byte(locals[Cur], Head(buffer)))
  /\ fed' = Append(fed, Head(buffer))
  /\ buffer' = Tail(buffer)
  /\ UNCHANGED <<opts, fs, stdin, ip, pc, lines, out, exc, del_ignored, log>>

\* process(), line mode: self.fh.readlines()
ReadLines ==
  /\ pc = "process" /\ locals[Cur].rmode = "line"
  /\ LET self == locals[Cur]
         content == fs[self.filename]
         rest == SubSeq(content, self.fh.pos + 1, Len(content))
     IN  /\ locals' = Bind(Cur, [self EXCEPT !.fh.pos = Len(content)])
         /\ lines' = readlines(rest, <<>>)
         /\ IF lines' = <<>> THEN PassDone ELSE pc' = "line_loop" /\ log' = log
  /\ UNCHANGED <<opts, fs, stdin, ip, buffer, out, exc, del_ignored, fed>>

\* process(), line mode: self.on_line(i_line) for the next line
OnLine ==
  /\ pc = "line_loop" /\ lines # <<>>
  /\ locals' = Bind(Cur, on_line(locals[Cur], Head(lines)))
  /\ lines' = Tail(lines)
  /\ IF lines' = <<>> THEN PassDone ELSE pc' = pc /\ log' = log
  /\ UNCHANGED <<opts, fs, stdin, ip, buffer, out, exc, del_ignored, fed>>

\* process(), mode 'none': self.on_file()
OnFile ==
  /\ pc = "process" /\ locals[Cur].rmode = "none"
  /\ locals' = Bind(Cur, on_file(locals[Cur], fs))
  /\ PassDone
  /\ UNCHANGED <<opts, fs, stdin, ip, buffer, lines, out, exc, del_ignored, fed>>

\* process() on an open handle fails: read()/readlines() raise IOError on an
\* I/O error of the device, os.stat() raises OSError when the path is gone.
PassFails ==
  /\ pc = "process" /\ buffer = <<>>
  /\ Raise(IF locals[Cur].rmode = "none" THEN "OSError" ELSE "IOError", "process")
  /\ UNCHANGED <<opts, fs, stdin, ip, locals, buffer, lines, out,
                 del_ignored, fed, log>>

\* x.close()
Close ==
  /\ pc = "close"
  /\ LET r == FileReader_close(locals[Cur])
     IN  /\ locals' = Bind(Cur, r.obj)
         /\ IF r.err # ""
            THEN Raise(r.err, "close") /\ log' = log
            ELSE /\ pc' = "print"
                 /\ log' = Append(log, <<Order[ip], "close">>)
                 /\ exc' = exc
  /\ UNCHANGED <<opts, fs, stdin, ip, buffer, lines, out, del_ignored, fed>>

\* print x.result()
Emit ==
  /\ pc = "print"
  /\ LET r == Printed(locals[Cur])
     IN  IF r.err # ""
         THEN Raise(r.err, "result") /\ UNCHANGED <<ip, out, log>>
         ELSE /\ out' = Append(out, [stat |-> Order[ip], cls |-> locals[Cur].cls,
                                     value |-> r.value])
              /\ log' = Append(log, <<Order[ip], "print">>)
              /\ ip' = ip + 1
              /\ pc' = "if"
              /\ exc' = exc
  /\ UNCHANGED <<opts, fs, stdin, locals, buffer, lines, del_ignored, fed>>

\* main() falls off its end.
Return ==
  /\ pc = "if" /\ ip = Len(Order) + 1
  /\ pc' = "return"
  /\ UNCHANGED <<opts, fs, stdin, ip, locals, buffer, lines, out, exc,
                 del_ignored, fed, log>>

\* main() has ended, by return or by an exception: its locals are destroyed,
\* and the __del__ of each runs self.close(); what a __del__ raises is ignored.
Unwind ==
  /\ pc \in {"return", "raise"}
  /\ locals' = [v \in DOMAIN locals |-> FileReader_close(locals[v]).obj]
  /\ del_ignored' = (del_ignored \/ \E v \in DOMAIN locals : FileReader_close(locals[v]).err # "")
  /\ pc' = "exit"
  /\ UNCHANGED <<opts, fs, stdin, ip, buffer, lines, out, exc, fed, log>>

Next ==
  \/ Skip
  \/ New
  \/ Open
  \/ ReadChunk
  \/ OnByte
  \/ ReadLines
  \/ OnLine
  \/ OnFile
  \/ PassFails
  \/ Close
  \/ Emit
  \/ Return
  \/ Unwind

Spec == Init /\ [][Next]_vars

-------------------------------------------------------------------------------------------------------------------------------------------------
(* Properties *)

\* The input file of the run.
Input == fs[opts.load_data]

Count(s, b) == Cardinality({i \in 1..Len(s) : s[i] = b})

\* The sum of the cells of an array whose indices are in S.
RECURSIVE SumOver(_, _)
SumOver(arr, S) ==
  IF S = {} THEN 0
  ELSE LET b == CHOOSE x \in S : TRUE
       IN  arr[b] + SumOver(arr, S \ {b})

\* The block of main() for this statistic has instantiated its object and is
\* the block main() is in (or ended in).
InBlock(flag) == ip <= Len(Order) /\ Order[ip] = flag /\ VarOf(flag) \in DOMAIN locals

\* The pass of this statistic's block has run to its end.
PassIsDone(flag) == \E k \in 1..Len(log) : log[k] = <<flag, "process">>

\* The values printed for the objects of a class.
Emitted(cls) == {out[k].value : k \in {j \in 1..Len(out) : out[j].cls = cls}}

\* The statistic has been printed.
IsPrinted(flag) == \E k \in 1..Len(out) : out[k].stat = flag

\* A LengthByStat object after open() and process() on the input of the run.
StatPass ==
  LengthByStat_on_file(FileReader_open(LengthByStat_init, opts.load_data, fs).obj, fs)

\* A non-empty file of one repeated byte value.
OneValue(s) == s # NoFile /\ s # <<>> /\ \A i \in 1..Len(s) : s[i] = s[1]

\* The number of maximal runs of non-whitespace characters.
Runs(s) ==
  Cardinality({i \in 1..Len(s) :
     s[i] \notin Whitespace /\ (i = 1 \/ s[i - 1] \in Whitespace)})

Terminators(s) == Count(s, 10)

Unterminated(s) == s # <<>> /\ s[Len(s)] # 10

\* The five operations of one statistic's block, in order.
Block(flag) ==
  <<<<flag, "new">>, <<flag, "open">>, <<flag, "process">>, <<flag, "close">>,
    <<flag, "print">>>>

RECURSIVE Expected(_, _)
Expected(order, i) ==
  IF i > Len(order) THEN <<>>
  ELSE (IF opts[order[i]] THEN Block(order[i]) ELSE <<>>) \o Expected(order, i + 1)

IsPrefix(s, t) == Len(s) <= Len(t) /\ SubSeq(t, 1, Len(s)) = s

\* What the run has done is a prefix of the blocks of the requested
\* statistics in this order, and all of them when main() returns.
RunsInOrder(order) ==
  /\ IsPrefix(log, Expected(order, 1))
  /\ (pc = "exit" /\ exc = NoExc) => log = Expected(order, 1)

ClaimedOrder == <<"length", "line_count", "word_count", "histogram", "entropy">>

AmendedOrder == <<"line_count", "word_count", "length", "histogram", "entropy">>

HasOpenHandle(self) == self.fh # None /\ ~self.fh.closed

\* What a close() of the local v has done in a step: no open handle is left,
\* nothing but the handle has changed, nothing at all has changed when there
\* was no open handle, and one more close() changes nothing and raises nothing.
CloseEffect(v) ==
  /\ ~HasOpenHandle(locals'[v])
  /\ [locals'[v] EXCEPT !.fh = locals[v].fh] = locals[v]
  /\ ~HasOpenHandle(locals[v]) => locals'[v] = locals[v]
  /\ FileReader_close(locals'[v]) = [err |-> "", obj |-> locals'[v]]

\* C1: at every point of a byte-mode pass of a Histogram (or of an Entropy,
\* which is one), result() is an array over 0..255 of naturals, entry b is the
\* number of on_byte calls made with byte b, the entries add up to the number
\* of on_byte calls, and after a full pass the calls made are the bytes of
\* the file.
HistogramCountsBytes ==
  \A flag \in {"histogram", "entropy"} :
    InBlock(flag) =>
      LET arr == Histogram_result(locals[VarOf(flag)])
          zero == {b \in DOMAIN arr : arr[b] = 0}
          rest == DOMAIN arr \ zero
      IN  /\ DOMAIN arr = 0..255
          /\ \A b \in rest : arr[b] \in Nat /\ arr[b] = Count(fed, b)
          /\ \A i \in 1..Len(fed) : fed[i] \notin zero
          /\ SumOver(arr, rest) = Len(fed)
          /\ PassIsDone(flag) => fed = Input

HistogramWitness ==
  /\ InBlock("histogram") /\ pc = "print"
  /\ Len(fed) = 3
  /\ Histogram_result(locals["h"])[97] = 2
  /\ Histogram_result(locals["h"])[10] = 1

\* C2: the length a LengthByRead pass over a file prints is the length a
\* LengthByStat pass over the same file yields.
LengthByReadEqualsLengthByStat ==
  \A n \in Emitted("LengthByRead") : n = LengthByStat_result(StatPass)

LengthWitness ==
  /\ Emitted("LengthByRead") # {}
  /\ Len(Input) > buffer_length

\* C3: on an empty file every printed result is zero (LengthByRead,
\* LineCount and WordCount 0, a Histogram of 256 zeros, Entropy 0 in bits and
\* in percent, from a total of 0), no result() raises, and a run that returns
\* has printed every requested statistic.
ZeroLengthInput ==
  Input = <<>> =>
    /\ exc.during # "result"
    /\ \A n \in Emitted("LengthByRead") \cup Emitted("LineCount") \cup Emitted("WordCount") : n = 0
    /\ \A arr \in Emitted("Histogram") : DOMAIN arr = 0..255 /\ \A b \in 0..255 : arr[b] = 0
    /\ \A e \in Emitted("Entropy") :
         /\ IsZeroReal(e[1]) /\ IsZeroReal(e[2])
         /\ e[1].total = 0
    /\ (pc = "exit" /\ exc = NoExc) => \A flag \in Flags : opts[flag] => IsPrinted(flag)

ZeroLengthWitness ==
  /\ Input = <<>> /\ pc = "exit" /\ exc = NoExc
  /\ Len(out) = 5 /\ opts.mode_length = "read"

\* C4: on a non-empty file of one repeated byte value the printed entropy is
\* 0 in bits and in percent, result() does not raise, and after the pass the
\* count of that byte value is the running total bcnt.
ConstantStreamEntropy ==
  OneValue(Input) =>
    /\ exc.during # "result"
    /\ \A e \in Emitted("Entropy") : IsZeroReal(e[1]) /\ IsZeroReal(e[2])
    /\ (InBlock("entropy") /\ PassIsDone("entropy")) =>
         /\ locals["e"].bcnt = Len(Input)
         /\ locals["e"].bcnt_arr[Input[1]] = locals["e"].bcnt

ConstantStreamWitness ==
  /\ Input = <<97, 97, 97>>
  /\ \E e \in Emitted("Entropy") : e[1].total = 3 /\ IsZeroReal(e[1]) /\ IsZeroReal(e[2])

\* C5: the word count printed is the number of maximal runs of
\* non-whitespace characters of the whole file.
WordCountIsRuns ==
  \A n \in Emitted("WordCount") : n = Runs(Input)

WordCountWitness ==
  /\ Input = <<97, 10, 97>>
  /\ 2 \in Emitted("WordCount")

\* C6 as stated: the requested statistics are handled in the order length,
\* line-count, word-count, histogram, entropy, each one instantiated, opened,
\* passed over, closed and printed before the next starts.
DriverOrderAsClaimed == RunsInOrder(ClaimedOrder)

\* C6 amended: the requested statistics are handled in the order line-count,
\* word-count, length, histogram, entropy, each one instantiated, opened,
\* passed over, closed and printed before the next starts.
DriverOrder == RunsInOrder(AmendedOrder)

DriverOrderWitness ==
  /\ pc = "exit" /\ exc = NoExc
  /\ \A flag \in Flags : opts[flag]
  /\ Len(log) = 25

\* C7 as stated: when the pass of a statistic fails after its input was
\* opened, every other requested statistic is still printed by the end of
\* the run.
RunContinuesAfterFailedPass ==
  (pc = "exit" /\ exc.during = "process") =>
    \A flag \in Flags : (opts[flag] /\ flag # exc.stat) => IsPrinted(flag)

\* C8 as stated: with the standard-input marker as input, open() does not
\* fail (standard input can be read) and a LengthByRead pass counts the
\* bytes of standard input.
StdinMarkerReadsStdin ==
  opts.load_data = StdinMarker =>
    /\ exc.during # "open"
    /\ \A n \in Emitted("LengthByRead") : n = Len(stdin)

\* C9: close() raises nothing in any state of the handle (never opened, open,
\* closed), leaves no open handle, changes nothing but the handle (no
\* counter), changes nothing at all when there is no open handle, and a
\* second close() changes nothing.
CloseIsIdempotentAndSafe ==
  [][/\ del_ignored' = FALSE
     /\ exc'.during # "close"
     /\ Close => CloseEffect(Cur)
     /\ Unwind => \A v \in DOMAIN locals : CloseEffect(v)]_vars

CloseWitness ==
  /\ pc = "exit" /\ exc = NoExc
  /\ opts.length /\ opts.mode_length = "stat"
  /\ locals["l"].fh.closed
  /\ ~del_ignored

\* C10: the line count printed is the number of '\n' of the file, plus one
\* when the file is not empty and does not end with '\n'.
LineCountIsTerminatorsPlusTail ==
  \A n \in Emitted("LineCount") :
    n = Terminators(Input) + (IF Unterminated(Input) THEN 1 ELSE 0)

LineCountWitness ==
  /\ Input = <<97, 10, 97>>
  /\ 2 \in Emitted("LineCount")

====
